---- MODULE Spec2Model ----
(***************************************************************************)
(* Model of the three notebooks of the repository:                         *)
(*   - Iterator.ipynb:   fibonacci, fibonacci_iter, fibonacci_gen, islice   *)
(*   - the Richardson-Lucy notebook:  convolve, RL_Deconvolve               *)
(*   - the Definitions notebook:      A = set([...]); len(A)                *)
(* A notebook is a kernel session: its state is the objects the cells have  *)
(* bound, and every call of a routine is an action.                         *)
(***************************************************************************)
EXTENDS Integers, Sequences, FiniteSets, TLC

(* ------------------------------ bounds --------------------------------- *)
\* largest argument `end` / islice stop index tried
MaxEnd == 10
\* largest number of next() calls made on one iterator or generator
MaxNext == 10
\* number of fibonacci_iter instances alive at once
NumInst == 2
\* longest list handed to set()
MaxListLen == 5
\* largest n_iter tried on RL_Deconvolve
MaxIter == 2
\* the session specification (all routines interleaved) uses smaller inputs
SessionMaxNext == 2

VARIABLES
    x_called, x_end, x,          \* cell `x = fibonacci(end)`
    y_called, y_stop, y, y_err,  \* cell `y = list(islice(fibonacci_iter(), 0, stop))`
    y_cell, y_arg,               \* which islice cell ran last, and its stop argument
    last_slice,                  \* the last islice taken from an existing instance
    inst, out,                   \* fibonacci_iter instances, values each has returned
    gen, gen_out,                \* a fibonacci_gen generator, values it has yielded
    L, A, card,                  \* Definitions notebook: the list, A = set(L), len(A)
    rl, rl_ret, rl_err,          \* RL_Deconvolve: frame, returned array, raised error
    rl_updates, conv_calls,      \* updates applied / convolve calls made by the call
    conv_err,                    \* the error a convolve call of this call raised
    watch_fib, watch_rl          \* an earlier call (arguments, result) being remembered

varsIter == <<x_called, x_end, x, y_called, y_stop, y, y_err, y_cell, y_arg, last_slice, inst, out, gen, gen_out>>
varsDefs == <<L, A, card>>
varsRL   == <<rl, rl_ret, rl_err, rl_updates, conv_calls, conv_err>>
varsWatch == <<watch_fib, watch_rl>>
vars == <<varsIter, varsDefs, varsRL, varsWatch>>

Max(a, b) == IF a >= b THEN a ELSE b

(* ======================= Iterator notebook ============================= *)

\* the sequence the notebook's text defines: F_n = F_{n-1} + F_{n-2}, F_1 = F_2 = 1
RECURSIVE F(_)
F(n) == IF n <= 2 THEN 1 ELSE F(n - 1) + F(n - 2)

\* the list both cells of the notebook print
FirstTen == <<1, 1, 2, 3, 5, 8, 13, 21, 34, 55>>

\* Faulty variant: `res` survives from the previous call (a mutable default argument).
fibonacci_locals_shared == [res |-> x, previous |-> 0, current |-> 1]

\* res = [] ; previous, current = 0, 1
fibonacci_locals == [res |-> <<>>, previous |-> 0, current |-> 1]

\* Faulty variant: the new `current` is appended instead of the new `previous`.
fibonacci_body_current(f) ==
    LET previous == f.current
        current  == f.previous + f.current
    IN [res |-> Append(f.res, current), previous |-> previous, current |-> current]

\* previous, current = current, previous + current ; res.append(previous)
fibonacci_body(f) ==
    LET previous == f.current
        current  == f.previous + f.current
    IN [res |-> Append(f.res, previous), previous |-> previous, current |-> current]

\* for i in range(end): body      (range(end) is empty when end <= 0)
RECURSIVE fibonacci_loop(_, _, _)
fibonacci_loop(i, end, f) ==
    IF i >= end THEN f ELSE fibonacci_loop(i + 1, end, fibonacci_body(f))

\* def fibonacci(end): ... return res
fibonacci(end) == fibonacci_loop(0, end, fibonacci_locals).res

\* Faulty variant: the iterator starts one step ahead.
fibonacci_iter_init_ones == [previous |-> 1, current |-> 1]

\* fibonacci_iter.__init__
fibonacci_iter_init == [previous |-> 0, current |-> 1]

\* Faulty variant: next() returns the updated current.
fibonacci_iter_next_late(self) ==
    LET current == self.current + self.previous
    IN [stop |-> FALSE, value |-> current,
        self |-> [previous |-> self.current, current |-> current]]

\* Faulty variant: previous is assigned before `current += previous`.
fibonacci_iter_next_swapped(self) ==
    LET value    == self.current
        previous == value
        current  == self.current + previous
    IN [stop |-> FALSE, value |-> value, self |-> [previous |-> previous, current |-> current]]

\* Faulty variant: the iterator is exhausted once its values pass a limit
\* (`if self.current > 30: raise StopIteration`).
fibonacci_iter_next_exhausts(self) ==
    LET value   == self.current
        current == self.current + self.previous
    IN IF self.current > 30
       THEN [stop |-> TRUE, value |-> 0, self |-> self]
       ELSE [stop |-> FALSE, value |-> value, self |-> [previous |-> value, current |-> current]]

\* fibonacci_iter.next: the value returned and the instance afterwards; `stop`
\* tells whether the call raised StopIteration (the method has no such path)
fibonacci_iter_next(self) ==
    LET value   == self.current
        current == self.current + self.previous
    IN [stop |-> FALSE, value |-> value, self |-> [previous |-> value, current |-> current]]

\* Faulty variant: __iter__ hands out a fresh iterator (`return fibonacci_iter()`).
fibonacci_iter_iter_restart(self) == fibonacci_iter_init

\* fibonacci_iter.__iter__: return self
fibonacci_iter_iter(self) == self

\* the name fibonacci_iter: the class object, not an instance of it
fibonacci_iter_class == [kind |-> "class", self |-> fibonacci_iter_init]

\* an instance of the class, with its attributes
fibonacci_iter_instance(self) == [kind |-> "instance", self |-> self]

\* iter(obj): __iter__ is a method of the instances; the class object itself has
\* no iterator and iter() raises TypeError for it
iter(obj) ==
    IF obj.kind = "instance"
    THEN [err |-> "none", self |-> fibonacci_iter_iter(obj.self)]
    ELSE [err |-> "TypeError", self |-> obj.self]

\* list(islice(it, 0, stop)): the first `stop` values of iter(it)
RECURSIVE islice_list(_, _, _)
islice_list(it, stop, acc) ==
    IF Len(acc) >= stop THEN acc
    ELSE LET r == fibonacci_iter_next(it)
         IN IF r.stop THEN acc ELSE islice_list(r.self, stop, Append(acc, r.value))

\* islice(it, 0, stop) consumed to its end: the values taken and the iterator
\* as the slice leaves it
RECURSIVE islice_take(_, _, _)
islice_take(it, stop, acc) ==
    IF Len(acc) >= stop THEN [list |-> acc, self |-> it]
    ELSE LET r == fibonacci_iter_next(it)
         IN IF r.stop THEN [list |-> acc, self |-> it]
            ELSE islice_take(r.self, stop, Append(acc, r.value))

\* def fibonacci_gen(end): calling it only creates the generator object
fibonacci_gen(end) == [pc |-> "created", end |-> end, previous |-> 0, current |-> 0]

\* Faulty variant: the loop is bounded by the argument (`while current <= end`).
fibonacci_gen_resume_bounded(g) ==
    LET previous == IF g.pc = "created" THEN 0 ELSE g.current
        current  == IF g.pc = "created" THEN 1 ELSE g.previous + g.current
    IN IF current > g.end
       THEN [value |-> 0, gen |-> [g EXCEPT !.pc = "finished"]]
       ELSE [value |-> current,
             gen |-> [g EXCEPT !.pc = "suspended", !.previous = previous, !.current = current]]

\* one next() on the generator: run its frame up to the next `yield current`
fibonacci_gen_resume(g) ==
    IF g.pc = "created"
    THEN \* previous, current = 0, 1 ; while True: yield current
         LET previous == 0
             current  == 1
         IN [value |-> current,
             gen |-> [g EXCEPT !.pc = "suspended", !.previous = previous, !.current = current]]
    ELSE \* previous, current = current, previous + current ; while True: yield current
         LET previous == g.current
             current  == g.previous + g.current
         IN [value |-> current,
             gen |-> [g EXCEPT !.previous = previous, !.current = current]]

(* ---- the cells of the notebook, as actions ---- *)

\* x = fibonacci(end)
Call_fibonacci(end) ==
    /\ x_called' = TRUE
    /\ x_end' = end
    /\ x' = fibonacci(end)
    /\ UNCHANGED <<y_called, y_stop, y, y_err, y_cell, y_arg, last_slice, inst, out, gen, gen_out>>

\* y = list(islice(fibonacci_iter(), 0, stop)); islice rejects a negative stop
Call_islice(stop) ==
    /\ y_cell' = "islice"
    /\ y_arg' = stop
    /\ IF stop < 0
       THEN /\ y_err' = "ValueError"
            /\ UNCHANGED <<y_called, y_stop, y>>
       ELSE /\ y_err' = "none"
            /\ y_called' = TRUE
            /\ y_stop' = stop
            /\ y' = islice_list(fibonacci_iter_iter(fibonacci_iter_init), stop, <<>>)
    /\ UNCHANGED <<x_called, x_end, x, last_slice, inst, out, gen, gen_out>>

\* %time y = list(islice(fibonacci_iter, 0, stop)): the argument is the class.
\* islice checks its indices, then asks iter() for an iterator of the argument
Time_islice_class(stop) ==
    /\ y_cell' = "time"
    /\ y_arg' = stop
    /\ LET it == iter(fibonacci_iter_class)
       IN IF stop < 0
          THEN /\ y_err' = "ValueError"
               /\ UNCHANGED <<y_called, y_stop, y>>
          ELSE IF it.err # "none"
          THEN /\ y_err' = it.err
               /\ UNCHANGED <<y_called, y_stop, y>>
          ELSE /\ y_err' = "none"
               /\ y_called' = TRUE
               /\ y_stop' = stop
               /\ y' = islice_list(it.self, stop, <<>>)
    /\ UNCHANGED <<x_called, x_end, x, last_slice, inst, out, gen, gen_out>>

\* it_i = fibonacci_iter()
New_fibonacci_iter(i) ==
    /\ inst' = [inst EXCEPT ![i] = [alive |-> TRUE, stopped |-> FALSE, self |-> fibonacci_iter_init]]
    /\ out' = [out EXCEPT ![i] = <<>>]
    /\ UNCHANGED <<x_called, x_end, x, y_called, y_stop, y, y_err, y_cell, y_arg, last_slice, gen, gen_out>>

\* Faulty variant: previous and current are attributes of the class, shared by
\* all the instances.
Call_next_shared(i, bound) ==
    /\ inst[i].alive
    /\ Len(out[i]) < bound
    /\ LET r == fibonacci_iter_next(inst[i].self)
       IN /\ inst' = [j \in 1..NumInst |-> [inst[j] EXCEPT !.self = r.self, !.stopped = r.stop]]
          /\ out' = IF r.stop THEN out ELSE [out EXCEPT ![i] = Append(@, r.value)]
    /\ UNCHANGED <<x_called, x_end, x, y_called, y_stop, y, y_err, y_cell, y_arg, last_slice, gen, gen_out>>

\* it_i.next()
Call_next(i, bound) ==
    /\ inst[i].alive
    /\ Len(out[i]) < bound
    /\ LET r == fibonacci_iter_next(inst[i].self)
       IN /\ inst' = [inst EXCEPT ![i].self = r.self, ![i].stopped = r.stop]
          \* a call that raises StopIteration returns no value
          /\ out' = IF r.stop THEN out ELSE [out EXCEPT ![i] = Append(@, r.value)]
    /\ UNCHANGED <<x_called, x_end, x, y_called, y_stop, y, y_err, y_cell, y_arg, last_slice, gen, gen_out>>

\* list(islice(it_i, 0, stop)) on an instance that already exists: islice asks
\* iter(it_i) for the iterator, and what __iter__ returns is the object consumed
Call_islice_inst(i, stop, bound) ==
    /\ inst[i].alive
    /\ Len(out[i]) + stop <= bound
    /\ LET it == iter(fibonacci_iter_instance(inst[i].self))
           r  == islice_take(it.self, stop, <<>>)
       IN /\ inst' = [inst EXCEPT ![i].self = r.self]
          /\ out' = [out EXCEPT ![i] = @ \o r.list]
          /\ last_slice' = [inst |-> i, k |-> Len(out[i]), list |-> r.list]
    /\ UNCHANGED <<x_called, x_end, x, y_called, y_stop, y, y_err, y_cell, y_arg, gen, gen_out>>

\* g = fibonacci_gen(end)
New_fibonacci_gen(end) ==
    /\ gen' = fibonacci_gen(end)
    /\ gen_out' = <<>>
    /\ UNCHANGED <<x_called, x_end, x, y_called, y_stop, y, y_err, y_cell, y_arg, last_slice, inst, out>>

\* g.next()
Call_gen_next ==
    /\ gen.pc \in {"created", "suspended"}
    /\ Len(gen_out) < MaxNext
    /\ LET r == fibonacci_gen_resume(gen)
       IN /\ gen' = r.gen
          \* a generator whose frame has ended yields nothing (StopIteration)
          /\ gen_out' = IF r.gen.pc = "finished" THEN gen_out ELSE Append(gen_out, r.value)
    /\ UNCHANGED <<x_called, x_end, x, y_called, y_stop, y, y_err, y_cell, y_arg, last_slice, inst, out>>

InitIter ==
    /\ x_called = FALSE /\ x_end = 0 /\ x = <<>>
    /\ y_called = FALSE /\ y_stop = 0 /\ y = <<>> /\ y_err = "none"
    /\ y_cell = "none" /\ y_arg = 0
    /\ last_slice = [inst |-> 0, k |-> 0, list |-> <<>>]
    /\ inst = [i \in 1..NumInst |-> [alive |-> FALSE, stopped |-> FALSE, self |-> fibonacci_iter_init]]
    /\ out = [i \in 1..NumInst |-> <<>>]
    /\ gen = [pc |-> "none", end |-> 0, previous |-> 0, current |-> 0]
    /\ gen_out = <<>>

(* ====================== Definitions notebook =========================== *)

\* the elements the lists are made of (those of the notebook's example)
Elements == {1, 2, 3, 5}

\* the example list of the notebook
ExampleList == <<1, 1, 2, 3, 5>>

\* e is among the first n entries of the sequence s
Contains(s, n, e) == \E j \in 1..n : s[j] = e

\* Faulty variant: every element of the list is stored, also one already in the set.
set_add_always(S, e) == Append(S, e)

\* set.add: an element equal to one already stored is not stored again
set_add(S, e) == IF Contains(S, Len(S), e) THEN S ELSE Append(S, e)

\* set(list): the elements of the list are added one by one
RECURSIVE set_from_list(_, _, _)
set_from_list(list, k, S) ==
    IF k > Len(list) THEN S ELSE set_from_list(list, k + 1, set_add(S, list[k]))

\* len(A): the number of elements stored
set_len(S) == Len(S)

\* A = set(list) ; card(A) = len(A)
Cell_cardinality(list) ==
    /\ L' = list
    /\ A' = set_from_list(list, 1, <<>>)
    /\ card' = set_len(A')

InitDefs == L = <<>> /\ A = <<>> /\ card = 0

(* ==================== Richardson-Lucy notebook ========================= *)
(* Pixel values are exact rationals <<n, d>> (d > 0, lowest terms); the     *)
(* rounding of the floating-point arithmetic is not modelled.  NonFinite    *)
(* stands for the inf and nan that a division by zero produces.             *)

NonFinite == <<0, 0>>
IsFinite(a) == a[2] # 0
Abs(n) == IF n < 0 THEN -n ELSE n

RECURSIVE GCD(_, _)
GCD(a, b) == IF b = 0 THEN a ELSE GCD(b, a % b)

Norm(n, d) ==
    IF d = 0 THEN NonFinite
    ELSE LET g == GCD(Abs(n), Abs(d))
             sg == IF d < 0 THEN -1 ELSE 1
         IN <<sg * (n \div g), sg * (d \div g)>>

Rat(k) == <<k, 1>>
\* the operations cancel common factors before they multiply, to keep the
\* intermediate integers small
RAdd(a, b) ==
    IF IsFinite(a) /\ IsFinite(b)
    THEN LET g == GCD(a[2], b[2])
         IN Norm(a[1] * (b[2] \div g) + b[1] * (a[2] \div g), (a[2] \div g) * b[2])
    ELSE NonFinite
RMul(a, b) ==
    IF IsFinite(a) /\ IsFinite(b)
    THEN LET g1 == GCD(Abs(a[1]), b[2])
             g2 == GCD(Abs(b[1]), a[2])
         IN Norm((a[1] \div g1) * (b[1] \div g2), (a[2] \div g2) * (b[2] \div g1))
    ELSE NonFinite
\* numpy division: x / 0 is inf or nan (a warning, no exception)
RDiv(a, b) ==
    IF IsFinite(a) /\ IsFinite(b)
    THEN IF b[1] = 0 THEN NonFinite
         ELSE RMul(a, IF b[1] < 0 THEN <<-b[2], -b[1]>> ELSE <<b[2], b[1]>>)
    ELSE NonFinite

\* arrays are two-dimensional: a sequence of rows
Rows(a) == Len(a)
Cols(a) == Len(a[1])
Shape(a) == <<Rows(a), Cols(a)>>

RECURSIVE SeqOf(_, _)
\* the sequence <<f(1), ..., f(n)>>
SeqOf(f(_), n) == IF n = 0 THEN <<>> ELSE Append(SeqOf(f, n - 1), f(n))

\* the array of the given shape whose entry (i, j) is f(i, j)
MkArray(shape, f(_, _)) ==
    LET row(i) == LET cell(j) == f(i, j) IN SeqOf(cell, shape[2])
    IN SeqOf(row, shape[1])

RECURSIVE SumTo(_, _)
\* sum of f(0), ..., f(n - 1)
SumTo(f(_), n) == IF n = 0 THEN Rat(0) ELSE RAdd(SumTo(f, n - 1), f(n - 1))

\* 0.5 * np.ones(shape)
HalfOnes(shape) == LET one(i, j) == Rat(1)
                       ones == MkArray(shape, one)
                       half(i, j) == RMul(<<1, 2>>, ones[i][j])
                   IN MkArray(shape, half)

\* np.flip(m, 0) and np.flip(m, 1)
Flip0(m) == LET f(i, j) == m[Rows(m) + 1 - i][j] IN MkArray(Shape(m), f)
Flip1(m) == LET f(i, j) == m[i][Cols(m) + 1 - j] IN MkArray(Shape(m), f)

\* Faulty variant: the kernel is mirrored along the first axis only.
rot90_2_one_axis(m) == Flip0(m)

\* np.rot90(m, 2) is flip(flip(m, 0), 1)
rot90_2(m) == Flip1(Flip0(m))

(* ---- convolve_fft(image, kernel, boundary='wrap', crop=False,            *)
(*                   nan_treatment='fill', normalize_kernel=False) ----     *)

\* nan_treatment='fill': non-finite entries are replaced by fill_value = 0
FillNaN(a) == LET f(i, j) == IF IsFinite(a[i][j]) THEN a[i][j] ELSE Rat(0) IN MkArray(Shape(a), f)

\* boundary='wrap' pads nothing: the work shape is the larger of the two per axis
NewShape(sa, sk) == <<Max(sa[1], sk[1]), Max(sa[2], sk[2])>>

\* first index (from 0) of a block of size n centred in an axis of size new
SliceStart(new, n) == (new - (new + 1) \div 2) - n \div 2

\* the array centred in an array of the work shape, zero elsewhere
Embed(a, new) ==
    LET r0 == SliceStart(new[1], Rows(a))
        c0 == SliceStart(new[2], Cols(a))
        f(i, j) == IF /\ i - 1 >= r0 /\ i - 1 < r0 + Rows(a)
                      /\ j - 1 >= c0 /\ j - 1 < c0 + Cols(a)
                   THEN a[i - r0][j - c0] ELSE Rat(0)
    IN MkArray(new, f)

\* np.fft.ifftshift: index n \div 2 of each axis moves to index 0
IfftShift(a) ==
    LET f(i, j) == a[((i - 1 + Rows(a) \div 2) % Rows(a)) + 1][((j - 1 + Cols(a) \div 2) % Cols(a)) + 1]
    IN MkArray(Shape(a), f)

\* ifftn(fftn(a) * fftn(k)): the circular convolution of a and k
Circular(a, k) ==
    LET R == Rows(a)
        C == Cols(a)
        f(i, j) ==
            LET row(p) == LET cell(q) == RMul(a[p + 1][q + 1],
                                              k[((i - 1 - p) % R) + 1][((j - 1 - q) % C) + 1])
                          IN SumTo(cell, C)
            IN SumTo(row, R)
    IN MkArray(Shape(a), f)

\* def convolve(image, kernel): the value it returns when it raises nothing
convolve(image, kernel) ==
    LET new == NewShape(Shape(image), Shape(kernel))
    IN Circular(Embed(FillNaN(image), new), IfftShift(Embed(FillNaN(kernel), new)))

\* the errors a convolve call may raise instead of returning
ConvolveErrors == {"ValueError", "MemoryError"}

\* numpy broadcasting of two shapes: per axis equal, or one of them 1
Broadcastable(sa, sb) == \A d \in 1..2 : sa[d] = sb[d] \/ sa[d] = 1 \/ sb[d] = 1
BroadcastShape(sa, sb) == <<Max(sa[1], sb[1]), Max(sa[2], sb[2])>>
Pick(a, i, j) == a[IF Rows(a) = 1 THEN 1 ELSE i][IF Cols(a) = 1 THEN 1 ELSE j]

\* a / b and a * b, element by element
Divide(a, b) == LET f(i, j) == RDiv(Pick(a, i, j), Pick(b, i, j))
                IN MkArray(BroadcastShape(Shape(a), Shape(b)), f)
Multiply(a, b) == LET f(i, j) == RMul(Pick(a, i, j), Pick(b, i, j))
                  IN MkArray(BroadcastShape(Shape(a), Shape(b)), f)

(* ---- RL_Deconvolve(image, psf, n_iter) ---- *)

\* Faulty variant: the quotient is taken with the initial estimate, not the current one.
RL_update_stale(x_hat, image, psf, psf_rot) ==
    Multiply(x_hat, convolve(Divide(image, convolve(HalfOnes(Shape(image)), psf)), psf_rot))

\* Faulty variant: the estimate is replaced by the correction factor (`=` for `*=`).
RL_update_assign(x_hat, image, psf, psf_rot) ==
    convolve(Divide(image, convolve(x_hat, psf)), psf_rot)

\* x_hat * convolve(image / convolve(x_hat, psf), psf_rot)
RL_update(x_hat, image, psf, psf_rot) ==
    Multiply(x_hat, convolve(Divide(image, convolve(x_hat, psf)), psf_rot))

\* Faulty variant: the loop runs once more than n_iter (range(n_iter + 1)).
RL_more_extra(f) == f.i < f.n_iter + 1

\* for i in range(n_iter): is there another iteration?
RL_more(f) == f.i < f.n_iter

\* x_hat = 0.5 * np.ones(image.shape) ; psf_rot = np.rot90(psf, 2)
RL_locals(image, psf, n_iter) ==
    [pc |-> "loop", image |-> image, psf |-> psf, n_iter |-> n_iter, i |-> 0,
     x_hat |-> HalfOnes(Shape(image)), psf_rot |-> rot90_2(psf)]

\* Faulty variant: an error of convolve is caught and the iteration skipped (except: pass).
RL_raise_swallowed(f, err, convs, from_convolve) ==
    [frame |-> [f EXCEPT !.i = f.i + 1], err |-> "none", convs |-> convs, updates |-> 0,
     conv_err |-> IF from_convolve THEN err ELSE "none"]

\* nothing in RL_Deconvolve catches an exception: the frame is left at once
RL_raise(f, err, convs, from_convolve) ==
    [frame |-> [f EXCEPT !.pc = "raised"], err |-> err, convs |-> convs, updates |-> 0,
     conv_err |-> IF from_convolve THEN err ELSE "none"]

\* one pass of the loop body; o1 and o2 say whether the inner and the outer
\* convolve call return ("ok") or raise
RL_body(f, o1, o2) ==
    IF o1 # "ok" THEN RL_raise(f, o1, 1, TRUE)
    ELSE LET inner == convolve(f.x_hat, f.psf)
         IN IF ~Broadcastable(Shape(f.image), Shape(inner))
            THEN \* image / inner: operands could not be broadcast together
                 RL_raise(f, "ValueError", 1, FALSE)
            ELSE IF o2 # "ok" THEN RL_raise(f, o2, 2, TRUE)
            ELSE IF BroadcastShape(Shape(f.image), Shape(inner)) # Shape(f.x_hat)
            THEN \* x_hat *= ...: the product does not fit the output operand
                 RL_raise(f, "ValueError", 2, FALSE)
            ELSE [frame |-> [f EXCEPT !.i = f.i + 1,
                                      !.x_hat = RL_update(f.x_hat, f.image, f.psf, f.psf_rot)],
                  err |-> "none", convs |-> 2, updates |-> 1, conv_err |-> "none"]

\* the call RL_Deconvolve(image, psf, n_iter) enters the routine
RL_Call(image, psf, n_iter) ==
    /\ rl.pc # "loop"
    /\ rl' = RL_locals(image, psf, n_iter)
    /\ rl_ret' = <<>>
    /\ rl_err' = "none"
    /\ rl_updates' = 0
    /\ conv_calls' = 0
    /\ conv_err' = "none"

\* one iteration of the for loop
RL_Iterate(o1, o2) ==
    /\ rl.pc = "loop"
    /\ RL_more(rl)
    /\ \E r \in {RL_body(rl, o1, o2)} :
          /\ rl' = r.frame
          /\ rl_err' = r.err
          /\ rl_updates' = rl_updates + r.updates
          /\ conv_calls' = conv_calls + r.convs
          /\ conv_err' = IF r.conv_err # "none" THEN r.conv_err ELSE conv_err
    /\ UNCHANGED rl_ret

\* return x_hat
RL_Return ==
    /\ rl.pc = "loop"
    /\ ~RL_more(rl)
    /\ rl' = [rl EXCEPT !.pc = "returned"]
    /\ rl_ret' = rl.x_hat
    /\ UNCHANGED <<rl_err, rl_updates, conv_calls, conv_err>>

InitRL ==
    /\ rl = [pc |-> "idle", image |-> <<>>, psf |-> <<>>, n_iter |-> 0, i |-> 0,
             x_hat |-> <<>>, psf_rot |-> <<>>]
    /\ rl_ret = <<>>
    /\ rl_err = "none"
    /\ rl_updates = 0
    /\ conv_calls = 0
    /\ conv_err = "none"

\* the inputs tried
PixelValues == {0, 1}
PsfValues == {0, 1}
ImageShapes == {<<1, 2>>, <<2, 2>>}
PsfShapes == {<<1, 1>>, <<1, 2>>, <<2, 2>>, <<1, 3>>}
Arrays(shapes, values) ==
    UNION {[1..sh[1] -> [1..sh[2] -> {Rat(v) : v \in values}]] : sh \in shapes}
\* two images without a zero pixel and with unequal pixels
PositiveImages == {<<<<Rat(1), Rat(2)>>>>, <<<<Rat(1), Rat(2)>>, <<Rat(2), Rat(1)>>>>}
Images == Arrays(ImageShapes, PixelValues) \cup PositiveImages
Psfs == Arrays(PsfShapes, PsfValues)
Outcomes == {"ok"} \cup ConvolveErrors

(* ============================ specifications =========================== *)

\* an earlier completed call is remembered, to compare a later one with it;
\* later: the same routine was called again since; mixed: another routine was
Remember_fibonacci ==
    /\ x_called
    /\ watch_fib' = [set |-> TRUE, end |-> x_end, res |-> x, later |-> FALSE, mixed |-> FALSE]
    /\ UNCHANGED watch_rl

Remember_RL ==
    /\ rl.pc = "returned"
    /\ watch_rl' = [set |-> TRUE, image |-> rl.image, psf |-> rl.psf, n_iter |-> rl.n_iter,
                    ret |-> rl_ret, later |-> FALSE, mixed |-> FALSE]
    /\ UNCHANGED watch_fib

InitWatch ==
    /\ watch_fib = [set |-> FALSE, end |-> 0, res |-> <<>>, later |-> FALSE, mixed |-> FALSE]
    /\ watch_rl = [set |-> FALSE, image |-> <<>>, psf |-> <<>>, n_iter |-> 0, ret |-> <<>>,
                   later |-> FALSE, mixed |-> FALSE]

Init == InitIter /\ InitDefs /\ InitRL /\ InitWatch

\* Iterator notebook, the function and the islice cell
NextFunction ==
    /\ \/ \E end \in -2..MaxEnd : Call_fibonacci(end)
       \/ \E stop \in -1..MaxEnd : Call_islice(stop)
       \/ \E stop \in -1..MaxEnd : Time_islice_class(stop)
    /\ UNCHANGED <<varsDefs, varsRL, varsWatch>>
SpecFunction == Init /\ [][NextFunction]_vars

\* Iterator notebook, fibonacci_iter instances
NextIter ==
    /\ \/ \E i \in 1..NumInst : New_fibonacci_iter(i)
       \/ \E i \in 1..NumInst : Call_next(i, MaxNext)
    /\ UNCHANGED <<varsDefs, varsRL, varsWatch>>
SpecIter == Init /\ [][NextIter]_vars

\* Iterator notebook, one instance consumed in turns by next() calls and by
\* slices
NextResume ==
    /\ \/ New_fibonacci_iter(1)
       \/ Call_next(1, MaxNext)
       \/ \E stop \in 0..MaxNext : Call_islice_inst(1, stop, MaxNext)
    /\ UNCHANGED <<varsDefs, varsRL, varsWatch>>
SpecResume == Init /\ [][NextResume]_vars

\* Iterator notebook, the generator
NextGen ==
    /\ \/ \E end \in -2..MaxEnd : New_fibonacci_gen(end)
       \/ Call_gen_next
    /\ UNCHANGED <<varsDefs, varsRL, varsWatch>>
SpecGen == Init /\ [][NextGen]_vars

\* Iterator notebook, the two unbounded streams side by side: an instance of
\* fibonacci_iter and a generator, each consumed by next() calls
NextStreams ==
    /\ \/ New_fibonacci_iter(1)
       \/ Call_next(1, MaxNext)
       \/ \E end \in -2..MaxEnd : New_fibonacci_gen(end)
       \/ Call_gen_next
    /\ UNCHANGED <<varsDefs, varsRL, varsWatch>>
SpecStreams == Init /\ [][NextStreams]_vars

\* Definitions notebook
\* Definitions notebook: the list of the cell is edited (one more element, or the
\* example list) and the cell is run again
NextDefs ==
    /\ \/ \E e \in Elements : Len(L) < MaxListLen /\ Cell_cardinality(Append(L, e))
       \/ Cell_cardinality(ExampleList)
    /\ UNCHANGED <<varsIter, varsRL, varsWatch>>
SpecDefs == Init /\ [][NextDefs]_vars

\* Richardson-Lucy notebook: one call of RL_Deconvolve, on any of the inputs
RLStart ==
    /\ rl.pc = "idle"
    /\ \E image \in Images, psf \in Psfs, n_iter \in -1..MaxIter : RL_Call(image, psf, n_iter)
    /\ UNCHANGED <<varsIter, varsDefs, varsWatch>>
RLRun ==
    /\ \/ \E o1 \in Outcomes, o2 \in Outcomes : RL_Iterate(o1, o2)
       \/ RL_Return
    /\ UNCHANGED <<varsIter, varsDefs, varsWatch>>
NextRL == RLStart \/ RLRun
SpecRL == Init /\ [][NextRL]_vars
\* a call that has started keeps running: the interpreter does not suspend the
\* loop or the return statement
FairSpecRL == SpecRL /\ WF_vars(RLRun)

\* the whole session: the routines of the notebooks called in any order, one
\* call at a time (a notebook kernel runs one cell at a time)
SessionEnds == {-1, 3}
SessionImages == {<<<<Rat(1), Rat(2)>>, <<Rat(0), Rat(1)>>>>}
SessionPsfs == {<<<<Rat(1)>>>>, <<<<Rat(1), Rat(1)>>, <<Rat(0), Rat(1)>>>>}
SessionIters == {0, 2}

NoteFibonacci ==
    /\ watch_fib' = [watch_fib EXCEPT !.later = watch_fib.set]
    /\ watch_rl' = [watch_rl EXCEPT !.mixed = watch_rl.set]
NoteRL ==
    /\ watch_rl' = [watch_rl EXCEPT !.later = watch_rl.set]
    /\ watch_fib' = [watch_fib EXCEPT !.mixed = watch_fib.set]
NoteOther ==
    /\ watch_fib' = [watch_fib EXCEPT !.mixed = watch_fib.set]
    /\ watch_rl' = [watch_rl EXCEPT !.mixed = watch_rl.set]

Next ==
    \/ /\ rl.pc # "loop"
       /\ \/ (\E end \in SessionEnds : Call_fibonacci(end)) /\ NoteFibonacci
          \/ New_fibonacci_iter(1) /\ NoteOther
          \/ Call_next(1, SessionMaxNext) /\ NoteOther
       /\ UNCHANGED <<varsDefs, varsRL>>
    \/ /\ \/ (\E image \in SessionImages, psf \in SessionPsfs, n_iter \in SessionIters :
                 RL_Call(image, psf, n_iter)) /\ NoteRL
          \/ (\E o1 \in Outcomes, o2 \in Outcomes : RL_Iterate(o1, o2)) /\ UNCHANGED varsWatch
          \/ RL_Return /\ UNCHANGED varsWatch
       /\ UNCHANGED <<varsIter, varsDefs>>
    \/ /\ rl.pc # "loop"
       /\ Remember_fibonacci \/ Remember_RL
       /\ UNCHANGED <<varsIter, varsDefs, varsRL>>
Spec == Init /\ [][Next]_vars

(* ================================ claims =============================== *)

\* C1: fibonacci(end) returns a list of length max(end, 0) starting 1, 1 in which
\* every later element is the sum of the two before it; fibonacci(10) is the
\* list 1, 1, 2, 3, 5, 8, 13, 21, 34, 55.
C1_FibonacciList ==
    x_called =>
        /\ Len(x) = Max(x_end, 0)
        /\ \A k \in 1..Len(x) : x[k] = IF k <= 2 THEN 1 ELSE x[k - 1] + x[k - 2]
        /\ (x_end = 10 => x = FirstTen)
C1_Witness == x_called /\ x_end = 10 /\ Len(x) = 10 /\ x[10] = 55

\* C2: the k-th next() on a freshly constructed fibonacci_iter returns F_k; the
\* first ten calls return 1, 1, 2, 3, 5, 8, 13, 21, 34, 55.
C2_IterReturnsFk ==
    \A i \in 1..NumInst :
        /\ \A k \in 1..Len(out[i]) : out[i][k] = F(k)
        /\ (Len(out[i]) >= 10 => SubSeq(out[i], 1, 10) = FirstTen)
C2_Witness == \E i \in 1..NumInst : inst[i].alive /\ Len(out[i]) >= 10

\* C3: for n >= 0 the list fibonacci(n) equals list(islice(fibonacci_iter(), 0, n)).
C3_FunctionEqualsIterator ==
    /\ (x_called /\ y_called /\ x_end = y_stop) => x = y
    /\ y_called => Len(y) = y_stop
C3_Witness == x_called /\ y_called /\ x_end = y_stop /\ y_stop >= 10 /\ Len(y) >= 10

\* C4: the k-th value fibonacci_gen(end) yields is F_k, element k of fibonacci(n)
\* for every n >= k, whatever end is; the generator never ends on its own.
C4_GeneratorIgnoresEnd ==
    /\ gen.pc # "finished"
    /\ \A k \in 1..Len(gen_out) :
          /\ gen_out[k] = F(k)
          /\ \A n \in k..MaxEnd : fibonacci(n)[k] = gen_out[k]
C4_Witness == gen.pc = "suspended" /\ gen.end < 3 /\ Len(gen_out) >= 10

(* The update of the notebook's formula, written out pixel by pixel:        *)
(*   (a * h)[m, n] = sum over (u, v) of h[u, v] * a[m - u + r/2, n - v + c/2] *)
(* with indices from 0, taken modulo the image's shape, r x c the shape of  *)
(* the kernel h; and the rotated kernel is h*[u, v] = h[r - 1 - u, c - 1 - v]. *)
RefEntry(a, p, q) ==
    LET e == a[(p % Rows(a)) + 1][(q % Cols(a)) + 1] IN IF IsFinite(e) THEN e ELSE Rat(0)
RefConvAt(a, h, rotated, m, n) ==
    LET r == Rows(h)
        c == Cols(h)
        overU(u) ==
            LET overV(v) ==
                    RMul(IF rotated THEN h[r - u][c - v] ELSE h[u + 1][v + 1],
                         RefEntry(a, m - u + r \div 2, n - v + c \div 2))
            IN SumTo(overV, c)
    IN SumTo(overU, r)
RefUpdate(x_n, image, psf) ==
    LET blur(i, j) == RefConvAt(x_n, psf, FALSE, i - 1, j - 1)
        blurred == MkArray(Shape(image), blur)
        quot(i, j) == RDiv(image[i][j], blurred[i][j])
        quotient == MkArray(Shape(image), quot)
        next(i, j) == RMul(x_n[i][j], RefConvAt(quotient, psf, TRUE, i - 1, j - 1))
    IN MkArray(Shape(image), next)

\* C5: an iteration that completes replaces the estimate x_n by
\* x_n * convolve(image / convolve(x_n, psf), psf_rot), with x_n the estimate
\* of that iteration and psf_rot the psf rotated by 180 degrees.
C5_RichardsonLucyUpdate ==
    [][(rl.pc = "loop" /\ rl'.pc = "loop" /\ rl'.i = rl.i + 1)
         => rl'.x_hat = RefUpdate(rl.x_hat, rl.image, rl.psf)]_vars
C5_Witness ==
    /\ rl.pc = "loop" /\ rl.i = 2 /\ rl_updates = 2
    /\ rl.psf_rot # rl.psf
    /\ rl.x_hat # HalfOnes(Shape(rl.image))
    /\ \E i \in 1..Rows(rl.x_hat), j \in 1..Cols(rl.x_hat) : rl.x_hat[i][j] # rl.x_hat[1][1]

\* C7: len(set(list)) is the number of distinct elements of the list; adding an
\* element that is already present leaves it unchanged; the example has 4.
C7_Cardinality ==
    /\ [](/\ card = Cardinality({L[k] : k \in 1..Len(L)})
          /\ (L = ExampleList => card = 4))
    /\ [][\A e \in Elements :
            (L' = Append(L, e) /\ Contains(L, Len(L), e)) => card' = card]_vars
C7_Witness == L = ExampleList /\ card = 4

C9_ErrorPropagates ==
    /\ [](conv_err # "none" =>
            /\ rl.pc = "raised" /\ rl_err = conv_err
            /\ rl_ret = <<>> /\ rl_updates = rl.i)
    /\ [][rl.pc = "raised" =>
            \/ UNCHANGED varsRL
            \/ rl'.pc = "loop" /\ rl'.i = 0 /\ conv_calls' = 0 /\ conv_err' = "none"]_vars
C9_Witness ==
    /\ rl.pc = "raised" /\ conv_err = "MemoryError" /\ rl_err = "MemoryError"
    /\ rl.n_iter = 2 /\ rl.i = 1 /\ conv_calls = 4

Fits(psf, image) == Rows(psf) <= Rows(image) /\ Cols(psf) <= Cols(image)
AllHalf(a, shape) ==
    /\ Shape(a) = shape
    /\ \A i \in 1..shape[1], j \in 1..shape[2] : a[i][j] = <<1, 2>>

\* C10 as stated, for the calls in which no convolve call raised: a call that
\* has ended has returned, after exactly max(n_iter, 0) updates, an array of
\* image's shape.
C10_AlwaysReturns ==
    (rl.pc \in {"returned", "raised"} /\ conv_err = "none") =>
        /\ rl.pc = "returned"
        /\ rl_updates = Max(rl.n_iter, 0)
        /\ Shape(rl_ret) = Shape(rl.image)

\* C10, amended: the estimate starts as 0.5 everywhere in image's shape; every
\* call ends; it ends by an error only if n_iter > 0 and a convolve call raised
\* or psf is larger than image along an axis; otherwise it returns, after
\* exactly max(n_iter, 0) updates, an array of image's shape, and with
\* n_iter <= 0 the all-0.5 array without any convolve call.
C10_TerminatesAfterNIter ==
    /\ [](rl.pc = "loop" /\ rl.i = 0 => AllHalf(rl.x_hat, Shape(rl.image)))
    /\ [](rl.pc = "returned" =>
            /\ rl_updates = Max(rl.n_iter, 0)
            /\ conv_calls = 2 * Max(rl.n_iter, 0)
            /\ Shape(rl_ret) = Shape(rl.image)
            /\ (rl.n_iter <= 0 => AllHalf(rl_ret, Shape(rl.image))))
    /\ [](rl.pc = "raised" =>
            /\ rl.n_iter > 0
            /\ (conv_err # "none" \/ ~Fits(rl.psf, rl.image)))
    /\ (rl.pc = "loop" ~> rl.pc \in {"returned", "raised"})
    /\ ((rl.pc = "loop" /\ Fits(rl.psf, rl.image)) ~> (rl.pc = "returned" \/ conv_err # "none"))
C10_Witness ==
    /\ rl.pc = "returned" /\ rl.n_iter = 2 /\ rl_updates = 2 /\ conv_calls = 4
    /\ Shape(rl_ret) = <<2, 2>> /\ ~AllHalf(rl_ret, <<2, 2>>)

\* C11: psf_rot is psf rotated by 180 degrees, psf_rot[i][j] = psf[R-1-i][C-1-j]
\* (indices from 0) for an R x C psf; it is set before the loop and keeps that
\* value at every iteration; rotating it again gives psf.
C11_PsfRotatedOnce ==
    /\ [](rl.pc # "idle" =>
            /\ Shape(rl.psf_rot) = Shape(rl.psf)
            /\ \A i \in 1..Rows(rl.psf), j \in 1..Cols(rl.psf) :
                  rl.psf_rot[i][j] = rl.psf[Rows(rl.psf) + 1 - i][Cols(rl.psf) + 1 - j]
            /\ rot90_2(rl.psf_rot) = rl.psf)
    /\ [][rl.pc = "loop" => rl'.psf_rot = rl.psf_rot]_vars
C11_Witness ==
    /\ rl.pc = "loop" /\ rl.i = 2 /\ Shape(rl.psf) = <<2, 2>>
    /\ rl.psf_rot # rl.psf /\ rl.psf_rot # Flip0(rl.psf) /\ rl.psf_rot # Flip1(rl.psf)

\* C12: the timing cell, which passes the class fibonacci_iter to islice, binds
\* y to the list of the first N values of the iterator, the list that
\* list(islice(fibonacci_iter(), 0, N)) and fibonacci(N) give.
C12_TimingCellGivesList ==
    (y_cell = "time" /\ y_arg >= 0) =>
        /\ y_err = "none"
        /\ y = islice_list(iter(fibonacci_iter_instance(fibonacci_iter_init)).self, y_arg, <<>>)
        /\ y = fibonacci(y_arg)

\* C13: after any number k >= 0 of next() calls on an instance, (previous,
\* current) = (F_k, F_{k+1}) with F_0 = 0 and F_1 = 1; so 0 <= previous <=
\* current and current >= 1, and the value a next() call returned is the value
\* of previous right after that call.
C13_IterInvariant ==
    \A i \in 1..NumInst :
        inst[i].alive =>
            LET k == Len(out[i])
                self == inst[i].self
            IN /\ self.previous = (IF k = 0 THEN 0 ELSE F(k))
               /\ self.current = F(k + 1)
               /\ 0 <= self.previous /\ self.previous <= self.current
               /\ self.current >= 1
               /\ k >= 1 => out[i][k] = self.previous
C13_Witness ==
    \E i \in 1..NumInst :
        inst[i].alive /\ Len(out[i]) >= 6 /\ inst[i].self.previous < inst[i].self.current

\* C14: fibonacci_iter and fibonacci_gen never signal exhaustion: no next() call
\* raises StopIteration, every next() call returns a value, and a further
\* next() call is always possible, so a consumer that sets no bound of its own
\* never comes to an end.
C14_NeverExhausted ==
    /\ [](/\ \A i \in 1..NumInst : ~inst[i].stopped
          /\ gen.pc # "finished"
          /\ (inst[1].alive /\ Len(out[1]) < MaxNext) => ENABLED Call_next(1, MaxNext)
          /\ (gen.pc # "none" /\ Len(gen_out) < MaxNext) => ENABLED Call_gen_next)
    /\ [][/\ inst'[1].self # inst[1].self /\ out'[1] # <<>>
             => Len(out'[1]) = Len(out[1]) + 1
          /\ gen'.pc = "suspended" /\ gen' # gen
             => Len(gen_out') = Len(gen_out) + 1]_vars
C14_Witness ==
    /\ inst[1].alive /\ Len(out[1]) >= 9 /\ out[1][9] > 30
    /\ gen.pc = "suspended" /\ Len(gen_out) >= 9 /\ gen.end < gen_out[9]

\* C15: __iter__ returns the object itself with previous and current as they
\* were, so iterating again resumes: a slice taken from an instance that has
\* already given k values starts with F_{k+1} (its j-th value is F_{k+j}), and
\* an instance that has given n values in all, slices included, gives F_{n+1} next.
C15_IterationResumes ==
    /\ \A i \in 1..NumInst : inst[i].alive => fibonacci_iter_iter(inst[i].self) = inst[i].self
    /\ last_slice.inst # 0 =>
          \A j \in 1..Len(last_slice.list) : last_slice.list[j] = F(last_slice.k + j)
    /\ \A i \in 1..NumInst : inst[i].alive => inst[i].self.current = F(Len(out[i]) + 1)
C15_Witness ==
    /\ last_slice.inst = 1 /\ last_slice.k >= 3 /\ Len(last_slice.list) >= 3
    /\ last_slice.list[1] = F(last_slice.k + 1) /\ last_slice.list[1] > 1

\* C16: two fibonacci_iter instances share no state: however their next() calls
\* interleave, a call on one leaves previous, current and the values returned
\* by the other as they were, and the k-th call on each instance returns F_k.
C16_InstancesIndependent ==
    /\ [][\A i, j \in 1..NumInst :
             (i # j /\ (out'[i] # out[i] \/ inst'[i] # inst[i]))
                => (inst'[j] = inst[j] /\ out'[j] = out[j])]_vars
    /\ [](\A i \in 1..NumInst : \A k \in 1..Len(out[i]) : out[i][k] = F(k))
C16_Witness ==
    /\ inst[1].alive /\ inst[2].alive
    /\ Len(out[1]) >= 4 /\ Len(out[2]) >= 3 /\ Len(out[1]) > Len(out[2])
    /\ inst[1].self # inst[2].self

\* the sum of the entries of psf, and an array multiplied by a number
PsfSum(psf) ==
    LET row(p) == LET cell(q) == psf[p + 1][q + 1] IN SumTo(cell, Cols(psf))
    IN SumTo(row, Rows(psf))
Scaled(a, s) == LET f(i, j) == RMul(a[i][j], s) IN MkArray(Shape(a), f)
\* the estimate of the frame reproduces the image exactly, no pixel being zero
ExactSolution(f) ==
    /\ convolve(f.x_hat, f.psf) = f.image
    /\ \A i \in 1..Rows(f.image), j \in 1..Cols(f.image) :
          IsFinite(f.image[i][j]) /\ f.image[i][j] # Rat(0)

\* C17: when the estimate satisfies convolve(x_hat, psf) = image at every pixel,
\* all values non-zero, an iteration multiplies x_hat by the sum s of the entries
\* of psf; with s = 1 it leaves x_hat unchanged, and the estimate is still an
\* exact solution, so every further iteration leaves it unchanged too.
C17_ExactSolutionFixedPoint ==
    [][(rl.pc = "loop" /\ rl'.pc = "loop" /\ rl'.i = rl.i + 1 /\ ExactSolution(rl))
         => /\ rl'.x_hat = Scaled(rl.x_hat, PsfSum(rl.psf))
            /\ PsfSum(rl.psf) = Rat(1) => (rl'.x_hat = rl.x_hat /\ ExactSolution(rl'))]_vars
C17_Witness ==
    /\ rl.pc = "loop" /\ rl.i = 2 /\ ExactSolution(rl)
    /\ PsfSum(rl.psf) = Rat(1) /\ Shape(rl.psf) = <<2, 2>>
    /\ rl.x_hat[1][1] # rl.x_hat[1][2]

====
